---- MODULE Spec2Model ----
(***************************************************************************)
(* A model of the request workflow, the search tool, the search-result     *)
(* cache and the chat store of morphic-dreamer-watch.                      *)
(*                                                                         *)
(* workflow() (lib/actions/workflow.tsx, stored in src/lib/actions/chat.ts *)
(* from line 224 on) is one asynchronous function; every await of it, and  *)
(* every step of the agents it awaits, is an action here, and the variable *)
(* pc is the position of the one request being handled.                    *)
(***************************************************************************)
EXTENDS Integers, Sequences, FiniteSets, TLC

VARIABLES
    pc,            \* position of workflow()
    skip,          \* workflow's parameter skip
    action,        \* action.object.next
    aiInit,        \* aiState.get().messages when workflow() was called
    aiMessages,    \* aiState.get().messages
    aiDone,        \* aiState.done() has been called
    aiError,       \* the AI state carries an 'error' field
    uiStream,      \* "open" | "closed"
    isCollapsed,   \* "open" | "closed"
    isGenerating,  \* "open" | "closed"
    calls,         \* the agents invoked so far
    faults,        \* the calls that threw
    step,          \* researcher: number of the model step being streamed
    executed,      \* researcher: tool calls executed so far, over all steps
    toolResults,   \* researcher: let toolResults
    fullResponse,  \* researcher: let fullResponse
    answer,        \* workflow: const { text, toolResults } of researcher()
    related,
       \* querySuggestor: finalRelatedQueries (its items count)
    streamableText,\* researcher: const streamableText, its state, the
                   \* values pushed with update() and the one given to done()
    objectStream,  \* inquire, querySuggestor: const objectStream
    appState,      \* chat-panel.tsx: the isGenerating flag of the app state,
                   \* and whether the final AI state has reached aiMessage
    toolCall,      \* search tool: the arguments of the last execute()
    toolRequest,   \* search tool: what that call sent upstream, if anything
    toolResult,    \* search tool: what that call returned
    cacheEnv,      \* advanced-search route: which store process.env selects
    redisClient,   \* advanced-search route: let redisClient
    cacheConnected,\* whether that client's connect() has succeeded
    cacheStore,    \* the store's string keys: key -> entry
    cacheWritten,  \* per key, the value setCachedResults last stored there
    lastGet,       \* what the getCachedResults just made returned, and
                   \* whether its client.get reached the store
    lastSweep,     \* the cleanupExpiredCache just run: how it ended and the
                   \* store it started from
    storeEnv,      \* redisConfig: which store the environment selects
    redisWrapper,  \* server-utils.ts: let redisWrapper
    localRedisClient, \* server-utils.ts: let localRedisClient
    storeConnected,\* whether localRedisClient's connect() has succeeded
    chatHashes,    \* the store's hashes: chat key -> field -> stored string
    userIndex,     \* the store's sorted sets: user -> {[member, score]}
    now,           \* Date.now()
    chatSaved,     \* per chat id, the chat saveChat last stored
    lastChat,      \* what the getChat just made returned
    lastCall,      \* what the other chat action just made returned
    responses,     \* the responses of the advanced-search POST handler
    retrieved,     \* the retrieve tool's execute() in progress
    retry,         \* fetchJsonWithRetry: the call in progress
    handles,       \* server-utils.ts, call by call: let localRedisClient and
                   \* let redisWrapper, as numbers of clients
    clients,       \* the clients created so far, in the order of creation
    getters,       \* per caller, its call of getRedisClientServer
    closer         \* the calls of closeRedisConnectionServer

wfVars == <<pc, skip, action, aiInit, aiMessages, aiDone, aiError, uiStream,
            isCollapsed, isGenerating, calls, faults, step, executed,
            toolResults, fullResponse, answer, related, streamableText,
            objectStream, appState>>

searchVars == <<toolCall, toolRequest, toolResult>>

cacheVars == <<cacheEnv, redisClient, cacheConnected, cacheStore,
               cacheWritten, lastGet, lastSweep>>

chatVars == <<storeEnv, redisWrapper, localRedisClient, storeConnected,
              chatHashes, userIndex, now, chatSaved, lastChat, lastCall>>

postVars == <<responses>>

retrieveVars == <<retrieved>>

retryVars == <<retry>>

connVars == <<handles, clients, getters, closer>>

vars == <<wfVars, searchVars, cacheVars, chatVars, postVars, retrieveVars,
          retryVars, connVars>>

\* what each part of the program leaves alone
restOfWorkflow ==
    <<searchVars, cacheVars, chatVars, postVars, retrieveVars, retryVars,
      connVars>>
restOfSearch ==
    <<wfVars, cacheVars, chatVars, postVars, retrieveVars, retryVars,
      connVars>>
restOfCache ==
    <<wfVars, searchVars, chatVars, postVars, retrieveVars, retryVars,
      connVars>>
restOfChat ==
    <<wfVars, searchVars, cacheVars, postVars, retrieveVars, retryVars,
      connVars>>
restOfPost == <<wfVars, searchVars, chatVars, retrieveVars, retryVars, connVars>>
restOfRetrieve ==
    <<wfVars, searchVars, cacheVars, chatVars, postVars, retryVars, connVars>>
restOfRetry ==
    <<wfVars, searchVars, cacheVars, chatVars, postVars, retrieveVars,
      connVars>>
restOfConn ==
    <<wfVars, searchVars, cacheVars, chatVars, postVars, retrieveVars,
      retryVars>>

-----------------------------------------------------------------------------
(* Bounds *)

\* tool calls one model step may make
MaxToolCalls == 2
\* text deltas one research run may stream
MaxDeltas == 2
\* longest query string handed to the search tool
MaxQueryLen == 6
\* largest max_results handed to the search tool
MaxResultsArg == 6
\* most messages of a saved chat
MaxMessages == 2
\* latest time, in seconds, the clock of the chat store reaches
MaxClock == 2
\* most requests the advanced-search endpoint answers
MaxRequests == 3
\* by how many characters the longest raw content exceeds the content limit
MaxOverLimit == 2
\* largest number of attempts fetchJsonWithRetry is asked for
MaxRetries == 3

(* Program constants *)

\* researcher.tsx: maxSteps: 5
maxSteps == 5
\* related.tsx: .length(3)
RelatedLength == 3
\* search.tsx: query.length < 5, padEnd(5, ' ')
MinQueryLength == 5
\* search.tsx: Math.max(maxResults, 5)
MinResults == 5
\* app/api/advanced-search/route.ts: const CACHE_TTL = 3600
CACHE_TTL == 3600
\* retrieve.tsx 13
CONTENT_CHARACTER_LIMIT == 10000
\* part_000 441: the backoff step in milliseconds
BackoffStep == 1000
\* retrieve.tsx 54: the length of a result's title
TitleLength == 100

-----------------------------------------------------------------------------
(* Messages.  A message is [role, type, text, items]: text stands for the  *)
(* content string, items for the number of suggestions a 'related'         *)
(* message's serialized object carries (NoItems: the object has no items   *)
(* field; 0 for every other message type).                                 *)

NoItems == 0 - 1

Msg(role, type, text, items) ==
    [role |-> role, type |-> type, text |-> text, items |-> items]

UserInput == Msg("user", "input", "query", 0)

\* transcripts a request can start from: a first question, or a follow-up
\* to an earlier answered question
InitialTranscripts ==
    { <<UserInput>>,
      <<UserInput,
        Msg("assistant", "answer", "text", 0),
        Msg("assistant", "related", "related", RelatedLength),
        Msg("assistant", "followup", "followup", 0),
        UserInput>>,
      <<UserInput,
        Msg("assistant", "inquiry", "inquiry", 0),
        UserInput>> }

ToolNames == {"search", "retrieve"}

SeqsUpTo(S, n) == UNION {[1..k -> S] : k \in 0..n}

\* the text the researcher's catch block returns
ErrorText == <<"An error has occurred. Please try again.">>

-----------------------------------------------------------------------------
(* workflow(): pure parts *)

\* mutant of NextAction: a null classification is taken for 'inquire'
NextActionNullInquires(result) ==
    IF result = "null" THEN "inquire" ELSE result

\* chat.ts 300-304: action = (await taskManager(...)) ?? action, where
\* taskManager resolves to null when generateObject threw
NextAction(result) ==
    IF result = "null" THEN "proceed" ELSE result

\* mutant of InquiryMessages: the inquiry message is added twice
InquiryMessagesTwice(msgs) ==
    msgs \o <<Msg("assistant", "inquiry", "inquiry", 0),
              Msg("assistant", "inquiry", "inquiry", 0)>>

\* chat.ts 309-319: the messages completeAIState is given on the inquire path
InquiryMessages(msgs) ==
    Append(msgs, Msg("assistant", "inquiry", "inquiry", 0))

\* mutant of AnswerMessages: the new messages replace the last one held
AnswerMessagesOverLast(msgs, results, text) ==
    SubSeq(msgs, 1, Len(msgs) - 1)
         \o [i \in 1..Len(results) |-> Msg("tool", "tool", results[i], 0)]
         \o <<Msg("assistant", "answer", text, 0)>>

\* chat.ts 331-348: the messages updateAIState is given after researcher()
AnswerMessages(msgs, results, text) ==
    msgs \o [i \in 1..Len(results) |-> Msg("tool", "tool", results[i], 0)]
         \o <<Msg("assistant", "answer", text, 0)>>

\* mutant of RelatedMessages: 'followup' is written before 'related'
RelatedMessagesSwapped(msgs, relatedQueries) ==
    msgs \o <<Msg("assistant", "followup", "followup", 0),
              Msg("assistant", "related", "related", relatedQueries)>>

\* chat.ts 366-382: the messages completeAIState is given on the proceed path
RelatedMessages(msgs, relatedQueries) ==
    msgs \o <<Msg("assistant", "related", "related", relatedQueries),
              Msg("assistant", "followup", "followup", 0)>>

\* researcher.tsx 58-67: onStepFinish keeps the tool results of the step
\* whose stepType is 'initial', and of no other step
StepToolResults(stepNo, stepCalls, old) ==
    IF stepNo = 1 /\ Len(stepCalls) > 0 THEN stepCalls ELSE old

\* query-suggestor.tsx 44-49: a partial object replaces finalRelatedQueries
\* when it has an items field
NextRelated(old, partial) ==
    IF partial # NoItems THEN partial ELSE old

\* a streamable value nobody has created yet
NoStream == [state |-> "none", pushed |-> <<>>, final |-> <<>>]

\* mutant of Pushes: update() is given the delta alone
PushesDeltas(full, deltas) ==
    [k \in 1..Len(deltas) |-> <<deltas[k]>>]

\* researcher.tsx 70-75: the values streamableText.update() is given while
\* the deltas of one step arrive after the text full
Pushes(full, deltas) ==
    [k \in 1..Len(deltas) |-> full \o SubSeq(deltas, 1, k)]

\* chat-panel.tsx 86-88: handleQuerySubmit has set the flag and submitted
handleQuerySubmit == [isGenerating |-> TRUE, synced |-> FALSE]

\* chat-panel.tsx 135-139: the effect lowers the flag when the last message
\* of the AI state is of type 'followup' or 'inquiry'
lowersFlag(messages) ==
    /\ Len(messages) > 0
    /\ messages[Len(messages)].type \in {"followup", "inquiry"}

-----------------------------------------------------------------------------
(* workflow(): Init and actions *)

InitWorkflow ==
    /\ pc = "start"
    /\ skip \in BOOLEAN
    /\ action = "proceed"
    /\ aiInit \in InitialTranscripts
    /\ aiMessages = aiInit
    /\ aiDone = FALSE
    /\ aiError = FALSE
    /\ uiStream = "open"
    /\ isCollapsed = "open"
    /\ isGenerating = "open"
    /\ calls = {}
    /\ faults = {}
    /\ step = 0
    /\ executed = 0
    /\ toolResults = <<>>
    /\ fullResponse = <<>>
    /\ answer = [text |-> <<>>, toolResults |-> <<>>]
    /\ related = NoItems
    /\ streamableText = NoStream
    /\ objectStream = "none"
    /\ appState = handleQuerySubmit

\* chat.ts 298-304 with skip: the spinner, and no call of taskManager
SkipTaskManager ==
    /\ UNCHANGED restOfWorkflow
    /\ UNCHANGED appState
    /\ UNCHANGED <<streamableText, objectStream>>
    /\ pc = "start"
    /\ skip
    /\ pc' = "branch"
    /\ UNCHANGED <<skip, action, aiInit, aiMessages, aiDone, aiError, uiStream,
                   isCollapsed, isGenerating, calls, faults, step, executed,
                   toolResults, fullResponse, answer, related>>

\* chat.ts 298-304 and task-manager.tsx 7-21: result is the model's
\* classification, or "null" when generateObject threw and was caught
TaskManager(result) ==
    /\ UNCHANGED restOfWorkflow
    /\ UNCHANGED appState
    /\ UNCHANGED <<streamableText, objectStream>>
    /\ pc = "start"
    /\ ~skip
    /\ calls' = calls \cup {"taskManager"}
    /\ faults' = IF result = "null" THEN faults \cup {"taskManager"} ELSE faults
    /\ action' = NextAction(result)
    /\ pc' = "branch"
    /\ UNCHANGED <<skip, aiInit, aiMessages, aiDone, aiError, uiStream,
                   isCollapsed, isGenerating, step, executed, toolResults,
                   fullResponse, answer, related>>

\* chat.ts 306-307 and inquire.tsx 30-52: the question is streamed into the
\* UI; a throw of streamObject or of the stream leaves inquire()
Inquire(ok) ==
    /\ UNCHANGED restOfWorkflow
    /\ UNCHANGED appState
    /\ objectStream' = "closed"
    /\ UNCHANGED streamableText
    /\ pc = "branch"
    /\ action = "inquire"
    /\ calls' = calls \cup {"inquire"}
    /\ faults' = IF ok THEN faults ELSE faults \cup {"inquire"}
    /\ pc' = IF ok THEN "inquired" ELSE "catch"
    /\ UNCHANGED <<skip, action, aiInit, aiMessages, aiDone, aiError, uiStream,
                   isCollapsed, isGenerating, step, executed, toolResults,
                   fullResponse, answer, related>>

\* chat.ts 308-323: uiStream.done(), completeAIState, isCollapsed.done(false),
\* isGenerating.done(false), return.  ok: aiState.done did not throw.
InquireFinish(ok) ==
    /\ UNCHANGED restOfWorkflow
    /\ UNCHANGED appState
    /\ UNCHANGED <<streamableText, objectStream>>
    /\ pc = "inquired"
    /\ uiStream' = "closed"
    /\ IF ok
       THEN /\ aiMessages' = InquiryMessages(aiMessages)
            /\ aiDone' = TRUE
            /\ isCollapsed' = "closed"
            /\ isGenerating' = "closed"
            /\ pc' = "returned"
            /\ UNCHANGED faults
       ELSE /\ faults' = faults \cup {"completeAIState"}
            /\ pc' = "catch"
            /\ UNCHANGED <<aiMessages, aiDone, isCollapsed, isGenerating>>
    /\ UNCHANGED <<skip, action, aiInit, aiError, calls, step, executed,
                   toolResults, fullResponse, answer, related>>

\* chat.ts 326-329 and researcher.tsx 43-61: isCollapsed.done(true),
\* uiStream.update(null), and researcher() up to the await of streamText.
\* A throw there is caught by researcher itself (80-86).
ResearcherStart(ok) ==
    /\ UNCHANGED restOfWorkflow
    /\ UNCHANGED appState
    /\ streamableText' = [NoStream EXCEPT !.state = "open"]
    /\ UNCHANGED objectStream
    /\ pc = "branch"
    /\ action # "inquire"
    /\ isCollapsed' = "closed"
    /\ calls' = calls \cup {"researcher"}
    /\ IF ok
       THEN /\ pc' = "researching"
            /\ step' = 1
            /\ UNCHANGED <<faults, answer>>
       ELSE /\ faults' = faults \cup {"researcher"}
            /\ answer' = [text |-> ErrorText, toolResults |-> <<>>]
            /\ pc' = "researched"
            /\ UNCHANGED step
    /\ UNCHANGED <<skip, action, aiInit, aiMessages, aiDone, aiError, uiStream,
                   isGenerating, executed, toolResults, fullResponse, related>>

\* researcher.tsx 46-79: one model step of streamText.  The step streams the
\* text deltas, executes its tool calls and ends with onStepFinish; another
\* step follows when this one made tool calls and fewer than maxSteps steps
\* have run; after the last one researcher returns { text, toolResults }.
ResearchStep(stepCalls, deltas) ==
    /\ UNCHANGED restOfWorkflow
    /\ UNCHANGED appState
    /\ UNCHANGED objectStream
    /\ pc = "researching"
    /\ Len(fullResponse) + Len(deltas) <= MaxDeltas
    /\ fullResponse' = fullResponse \o deltas
    /\ executed' = executed + Len(stepCalls)
    /\ toolResults' = StepToolResults(step, stepCalls, toolResults)
    /\ IF Len(stepCalls) > 0 /\ step < maxSteps
       THEN /\ step' = step + 1
            /\ streamableText' =
                 [streamableText EXCEPT
                     !.pushed = @ \o Pushes(fullResponse, deltas)]
            /\ UNCHANGED <<pc, answer>>
       ELSE /\ streamableText' =
                 [state |-> "closed",
                  pushed |-> streamableText.pushed
                                 \o Pushes(fullResponse, deltas),
                  final |-> fullResponse']
            /\ answer' = [text |-> fullResponse', toolResults |-> toolResults']
            /\ pc' = "researched"
            /\ UNCHANGED step
    /\ UNCHANGED <<skip, action, aiInit, aiMessages, aiDone, aiError, uiStream,
                   isCollapsed, isGenerating, calls, faults, related>>

\* researcher.tsx 80-86: the stream throws during a step; researcher catches
\* and returns the fallback text with no tool results
ResearchFail ==
    /\ UNCHANGED restOfWorkflow
    /\ UNCHANGED appState
    /\ UNCHANGED <<streamableText, objectStream>>
    /\ pc = "researching"
    /\ faults' = faults \cup {"researcher"}
    /\ answer' = [text |-> ErrorText, toolResults |-> <<>>]
    /\ pc' = "researched"
    /\ UNCHANGED <<skip, action, aiInit, aiMessages, aiDone, aiError, uiStream,
                   isCollapsed, isGenerating, calls, step, executed,
                   toolResults, fullResponse, related>>

\* chat.ts 331-355 and query-suggestor.tsx 22-35: updateAIState with the tool
\* and answer messages, then the call of querySuggestor up to its await.
\* ok: aiState.update did not throw.
RecordAnswer(ok) ==
    /\ UNCHANGED restOfWorkflow
    /\ UNCHANGED appState
    /\ objectStream' = IF ok THEN "open" ELSE objectStream
    /\ UNCHANGED streamableText
    /\ pc = "researched"
    /\ IF ok
       THEN /\ aiMessages' =
                 AnswerMessages(aiMessages, answer.toolResults, answer.text)
            /\ calls' = calls \cup {"querySuggestor"}
            /\ pc' = "suggesting"
            /\ UNCHANGED faults
       ELSE /\ faults' = faults \cup {"updateAIState"}
            /\ pc' = "catch"
            /\ UNCHANGED <<aiMessages, calls>>
    /\ UNCHANGED <<skip, action, aiInit, aiDone, aiError, uiStream,
                   isCollapsed, isGenerating, step, executed, toolResults,
                   fullResponse, answer, related>>

\* query-suggestor.tsx 43-50: one partial object of partialObjectStream;
\* partial is its items count, or NoItems.  The stream's objects grow.
SuggestPartial(partial) ==
    /\ UNCHANGED restOfWorkflow
    /\ UNCHANGED appState
    /\ UNCHANGED <<streamableText, objectStream>>
    /\ pc = "suggesting"
    /\ partial = NoItems => related = NoItems
    /\ partial >= related
    /\ related' = NextRelated(related, partial)
    /\ UNCHANGED <<pc, skip, action, aiInit, aiMessages, aiDone, aiError,
                   uiStream, isCollapsed, isGenerating, calls, faults, step,
                   executed, toolResults, fullResponse, answer>>

\* query-suggestor.tsx 51-55: the stream ends (ok), or streamObject or the
\* stream throws: finally closes objectStream and the throw leaves
\* querySuggestor
SuggestEnd(ok) ==
    /\ UNCHANGED restOfWorkflow
    /\ UNCHANGED appState
    /\ objectStream' = "closed"
    /\ UNCHANGED streamableText
    /\ pc = "suggesting"
    /\ faults' = IF ok THEN faults ELSE faults \cup {"querySuggestor"}
    /\ pc' = IF ok THEN "suggested" ELSE "catch"
    /\ UNCHANGED <<skip, action, aiInit, aiMessages, aiDone, aiError, uiStream,
                   isCollapsed, isGenerating, calls, step, executed,
                   toolResults, fullResponse, answer, related>>

\* chat.ts 357-382: the follow-up panel, uiStream.done(),
\* isGenerating.done(false), completeAIState.  ok: aiState.done did not throw.
ProceedFinish(ok) ==
    /\ UNCHANGED restOfWorkflow
    /\ UNCHANGED appState
    /\ UNCHANGED <<streamableText, objectStream>>
    /\ pc = "suggested"
    /\ uiStream' = "closed"
    /\ isGenerating' = "closed"
    /\ IF ok
       THEN /\ aiMessages' = RelatedMessages(aiMessages, related)
            /\ aiDone' = TRUE
            /\ pc' = "returned"
            /\ UNCHANGED faults
       ELSE /\ faults' = faults \cup {"completeAIState"}
            /\ pc' = "catch"
            /\ UNCHANGED <<aiMessages, aiDone>>
    /\ UNCHANGED <<skip, action, aiInit, aiError, isCollapsed, calls, step,
                   executed, toolResults, fullResponse, answer, related>>

\* chat.ts 383-390: the catch block.  done() of a stream that is already
\* closed throws, and that throw leaves workflow().
WorkflowCatch ==
    /\ UNCHANGED restOfWorkflow
    /\ UNCHANGED appState
    /\ UNCHANGED <<streamableText, objectStream>>
    /\ pc = "catch"
    /\ IF uiStream = "closed" \/ isGenerating = "closed"
       THEN /\ pc' = "threw"
            /\ UNCHANGED <<uiStream, isGenerating, aiDone, aiError>>
       ELSE /\ uiStream' = "closed"
            /\ isGenerating' = "closed"
            /\ aiDone' = TRUE
            /\ aiError' = TRUE
            /\ pc' = "returned"
    /\ UNCHANGED <<skip, action, aiInit, aiMessages, isCollapsed, calls,
                   faults, step, executed, toolResults, fullResponse, answer,
                   related>>

\* chat-panel.tsx 134-140: aiState.done() has sent the final AI state to
\* the client, and the effect on aiMessage runs
AiMessageEffect ==
    /\ UNCHANGED restOfWorkflow
    /\ aiDone
    /\ ~appState.synced
    /\ appState' = [isGenerating |->
                       IF lowersFlag(aiMessages) THEN FALSE
                       ELSE appState.isGenerating,
                    synced |-> TRUE]
    /\ UNCHANGED <<pc, skip, action, aiInit, aiMessages, aiDone, aiError,
                   uiStream, isCollapsed, isGenerating, calls, faults, step,
                   executed, toolResults, fullResponse, answer, related,
                   streamableText, objectStream>>

NextWorkflow ==
    \/ SkipTaskManager
    \/ \E result \in {"proceed", "inquire", "null"} : TaskManager(result)
    \/ \E ok \in BOOLEAN : Inquire(ok)
    \/ \E ok \in BOOLEAN : InquireFinish(ok)
    \/ \E ok \in BOOLEAN : ResearcherStart(ok)
    \/ \E stepCalls \in SeqsUpTo(ToolNames, MaxToolCalls),
          deltas \in SeqsUpTo({"a", "b"}, 1) : ResearchStep(stepCalls, deltas)
    \/ ResearchFail
    \/ \E ok \in BOOLEAN : RecordAnswer(ok)
    \/ \E partial \in {NoItems} \cup (0..RelatedLength) : SuggestPartial(partial)
    \/ \E ok \in BOOLEAN : SuggestEnd(ok)
    \/ \E ok \in BOOLEAN : ProceedFinish(ok)
    \/ WorkflowCatch
    \/ AiMessageEffect


-----------------------------------------------------------------------------
(* The search tool (lib/agents/tools/search.tsx, three copies of it).  A   *)
(* string is the sequence of its characters.                               *)

Chars == {"w", " "}

Queries == SeqsUpTo(Chars, MaxQueryLen)

\* the three copies of searchTool under src/
Variants == {"search", "search2", "part_013"}

NoRequest == [sent |-> FALSE, query |-> <<>>, max_results |-> 0]

NoCall == [called |-> FALSE, variant |-> "search", query |-> <<>>,
           max_results |-> 0]

NoResult == [results |-> <<>>, images |-> <<>>, number_of_results |-> 0,
             query |-> <<>>, errored |-> FALSE]

\* String.prototype.padEnd(n, c) for a one-character c
RECURSIVE padEnd(_, _, _)
padEnd(str, n, c) ==
    IF Len(str) >= n THEN str ELSE padEnd(Append(str, c), n, c)

\* String.prototype.repeat
RECURSIVE repeat(_, _)
repeat(c, k) ==
    IF k <= 0 THEN <<>> ELSE <<c>> \o repeat(c, k - 1)

\* mutant of adjustedQuery: the padding is put in front of the query
adjustedQueryPadStart(query) ==
    IF Len(query) < MinQueryLength
    THEN repeat(" ", MinQueryLength - Len(query)) \o query
    ELSE query

\* search.tsx 40-41 and part_013 30
adjustedQuery(query) ==
    IF Len(query) < MinQueryLength THEN padEnd(query, MinQueryLength, " ")
    ELSE query

\* search.tsx 173-174 (second copy)
filledQuery(query) ==
    IF Len(query) < MinQueryLength
    THEN query \o repeat(" ", MinQueryLength - Len(query))
    ELSE query

QueryOf(variant, query) ==
    IF variant = "search2" THEN filledQuery(query) ELSE adjustedQuery(query)

\* mutant of invalidMaxResults: zero passes the guard
invalidMaxResultsNegative(max_results) == max_results < 0

\* search.tsx 43 and 177, part_013 32: if (max_results <= 0)
invalidMaxResults(max_results) == max_results <= 0

\* mutant of upstreamMaxResults: the requested count is sent as it is
upstreamMaxResultsAsRequested(maxResults) == maxResults

\* search.tsx 118 and 245, part_013 97: Math.max(maxResults, 5)
upstreamMaxResults(maxResults) ==
    IF maxResults > MinResults THEN maxResults ELSE MinResults

\* search.tsx 48-53, 72-77: the empty result
emptyResult(query) ==
    [results |-> <<>>, images |-> <<>>, number_of_results |-> 0,
     query |-> query, errored |-> TRUE]

\* what the upstream API may answer: results and images found (each image
\* with or without a description), or a failure (no API key, a non-2xx
\* status, a body that is no JSON or lacks images)
UpstreamAnswers ==
    [ok : {TRUE}, results : SeqsUpTo({"r"}, 1),
     images : SeqsUpTo({"described", "bare"}, 1)]
    \cup {[ok |-> FALSE, results |-> <<>>, images |-> <<>>]}

\* search.tsx 131-139: images without a description are dropped
processedImages(images) ==
    SelectSeq(images, LAMBDA img : img = "described")

InitSearch ==
    /\ toolCall = NoCall
    /\ toolRequest = NoRequest
    /\ toolResult = NoResult

\* search.tsx 24-88 (and 155-222, part_013 14-77) with tavilySearch
\* (101-141): one execute() of the search tool
SearchExecute(variant, query, max_results, upstream) ==
    /\ toolCall' = [called |-> TRUE, variant |-> variant, query |-> query,
                    max_results |-> max_results]
    /\ IF invalidMaxResults(max_results)
       THEN /\ toolRequest' = NoRequest
            /\ toolResult' = emptyResult(QueryOf(variant, query))
       ELSE /\ toolRequest' =
                 [sent |-> TRUE, query |-> QueryOf(variant, query),
                  max_results |-> upstreamMaxResults(max_results)]
            /\ toolResult' =
                 IF upstream.ok
                 THEN [results |-> upstream.results,
                       images |-> processedImages(upstream.images),
                       number_of_results |-> Len(upstream.results),
                       query |-> QueryOf(variant, query),
                       errored |-> FALSE]
                 ELSE emptyResult(QueryOf(variant, query))

\* search.tsx 83 and 87: the result goes to the model; execute() keeps
\* nothing between calls
SearchReturn ==
    /\ UNCHANGED restOfSearch
    /\ toolCall.called
    /\ toolCall' = NoCall
    /\ toolRequest' = NoRequest
    /\ toolResult' = NoResult

\* the model calls the tool: any copy of it, with any arguments the schema
\* lets through, and any answer of the upstream API
SearchCall ==
    /\ UNCHANGED restOfSearch
    /\ ~toolCall.called
    /\ ~retrieved.called
    /\ \E variant \in Variants, query \in Queries,
          max_results \in (0 - 2)..MaxResultsArg,
          upstream \in UpstreamAnswers :
           SearchExecute(variant, query, max_results, upstream)

NextSearch ==
    \/ SearchCall
    \/ SearchReturn

-----------------------------------------------------------------------------
(* The retrieve tool (lib/agents/tools/retrieve.tsx).  A string is the     *)
(* sequence of its characters; the characters of a raw content differ from *)
(* place to place, so that a part of it is told from another.              *)

rawContent(n) == [i \in 1..n |-> i % 7]

RawLengths ==
    {0, 1, TitleLength - 1, TitleLength, TitleLength + 1,
     CONTENT_CHARACTER_LIMIT - 1}
    \cup (CONTENT_CHARACTER_LIMIT..(CONTENT_CHARACTER_LIMIT + MaxOverLimit))

\* what the extraction API may answer: no API key is set, a non-2xx status,
\* a body that is no JSON, a body without results, a result without
\* raw_content, or a result with its raw content
ExtractAnswers ==
    {[kind |-> k, raw_content |-> <<>>] :
        k \in {"nokey", "non2xx", "malformed", "noresults", "noraw"}}
    \cup {[kind |-> "ok", raw_content |-> rawContent(n)] : n \in RawLengths}

NotRetrieved ==
    [called |-> FALSE, answer |-> [kind |-> "nokey", raw_content |-> <<>>],
     threw |-> FALSE, errored |-> FALSE,
     result |-> [results |-> <<>>, query |-> "", images |-> <<>>]]

\* mutant of slice: the end is not applied
sliceToEnd(str, start, end) == SubSeq(str, start + 1, Len(str))

\* String.prototype.slice(start, end) for 0 <= start <= end
slice(str, start, end) ==
    SubSeq(str, start + 1, IF end < Len(str) THEN end ELSE Len(str))

\* retrieve.tsx 23-70: fetchTavilyExtractData; it throws, resolves to null
\* or resolves to the extracted result
fetchTavilyExtractData(json) ==
    IF json.kind \in {"nokey", "non2xx", "malformed", "noraw"}
    THEN [threw |-> TRUE, null |-> FALSE, results |-> <<>>]
    ELSE IF json.kind = "noresults"
    THEN [threw |-> FALSE, null |-> TRUE, results |-> <<>>]
    ELSE LET content == slice(json.raw_content, 0, CONTENT_CHARACTER_LIMIT)
         IN  [threw |-> FALSE, null |-> FALSE,
              results |-> <<[title |-> slice(content, 0, TitleLength),
                             content |-> content]>>]

\* retrieve.tsx 89-119: what execute() returns
retrieveResult(json) ==
    LET fetched == fetchTavilyExtractData(json)
    IN  IF fetched.threw \/ fetched.null
        THEN [results |-> <<>>, query |-> "", images |-> <<>>]
        ELSE [results |-> fetched.results, query |-> "", images |-> <<>>]

InitRetrieve == retrieved = NotRetrieved

\* retrieve.tsx 89-119: one execute() of the retrieve tool, for any answer
\* of the extraction API
RetrieveCall ==
    /\ UNCHANGED restOfRetrieve
    /\ ~retrieved.called
    /\ ~toolCall.called
    /\ \E json \in ExtractAnswers :
          retrieved' =
              [called |-> TRUE, answer |-> json, threw |-> FALSE,
               errored |-> fetchTavilyExtractData(json).threw,
               result |-> retrieveResult(json)]

\* retrieve.tsx 109 and 118: the result goes to the model; execute() keeps
\* nothing between calls
RetrieveReturn ==
    /\ UNCHANGED restOfRetrieve
    /\ retrieved.called
    /\ retrieved' = NotRetrieved

\* the tools the researcher hands to the model
NextTools ==
    \/ NextSearch
    \/ RetrieveCall
    \/ RetrieveReturn

-----------------------------------------------------------------------------
(* The search-result cache of app/api/advanced-search/route.ts             *)
(* (src/unnamed/part_000).                                                 *)
(*                                                                         *)
(* A cached value is a JSON value [kind, id]: an object (a result          *)
(* envelope) or a number.  setCachedResults is the only writer of the      *)
(* keys, so an entry's string is always the JSON text of a value, and the  *)
(* entry holds that value.  ttl is what the store's TTL command reports:   *)
(* the remaining seconds rounded, 0 for a key in its last half second.     *)

CacheKeys == {"search:a", "search:undefined"}

Object(id) == [kind |-> "object", id |-> id]
Number(id) == [kind |-> "number", id |-> id]
Null == [kind |-> "null", id |-> 0]

CacheValues == {Object(1), Object(2), Number(7)}

NoEntry == [present |-> FALSE, value |-> Null, expires |-> FALSE, ttl |-> 0]

\* a key of another part of the application in the same store, written
\* without an expiry
OtherKeys == {"chat:a"}

StoreKeys == CacheKeys \cup OtherKeys

KeyPrefix == [k \in StoreKeys |-> IF k \in CacheKeys THEN "search:" ELSE "chat:"]

InitialStore ==
    [k \in StoreKeys |->
        IF k \in CacheKeys THEN NoEntry
        ELSE [present |-> TRUE, value |-> Object(1), expires |-> FALSE,
              ttl |-> 0]]

\* mutant of clientKeys: the pattern matches every key
clientKeysOfAnyPrefix(store, pattern) ==
    {k \in StoreKeys : store[k].present}

\* part_000 122: client.keys('search:*'), the existing keys that start with
\* the pattern's prefix
clientKeys(store, pattern) ==
    {k \in StoreKeys : store[k].present /\ KeyPrefix[k] = pattern}

\* part_000 124: client.ttl(key), the seconds the key has left; -1 for a key
\* without an expiry, -2 for a key that does not exist
ttl(entry) ==
    IF ~entry.present THEN 0 - 2
    ELSE IF ~entry.expires THEN 0 - 1
    ELSE entry.ttl

NoSweep == [called |-> FALSE, threw |-> FALSE, before |-> InitialStore]

NotWritten == [written |-> FALSE, value |-> Null, fresh |-> FALSE,
               gone |-> FALSE]

NoGet == [called |-> FALSE, key |-> "search:a", result |-> Null,
          reached |-> FALSE]

\* the time one Tick lets pass
TickSeconds == CACHE_TTL \div 2

\* part_000 29-52: initializeRedisClient; the handle it leaves in redisClient
initializeRedisClient(env, client) ==
    IF client # "null" THEN client
    ELSE IF env = "local" THEN "local"
    ELSE IF env = "upstash" THEN "upstash"
    ELSE "null"

\* part_000 69 and 71: what client.get resolves to.  The socket client
\* resolves to the stored string; the REST client parses a stored string
\* that is JSON and resolves to the parsed value.
clientGet(client, entry) ==
    IF ~entry.present THEN [type |-> "null", value |-> Null]
    ELSE IF client = "upstash" THEN [type |-> entry.value.kind,
                                     value |-> entry.value]
    ELSE [type |-> "string", value |-> entry.value]

\* JavaScript truthiness of what client.get resolved to
truthy(data) ==
    CASE data.type = "null" -> FALSE
      [] data.type = "string" -> TRUE
      [] data.type = "object" -> TRUE
      [] data.type = "number" -> data.value.id # 0

\* JSON.parse(data): of a string that is the JSON text of a value, the
\* value; an object is first turned into the string "[object Object]",
\* which is no JSON; a number into its digits, which are
JSONparse(data) ==
    CASE data.type = "string" -> [ok |-> TRUE, value |-> data.value]
      [] data.type = "number" -> [ok |-> TRUE, value |-> data.value]
      [] OTHER -> [ok |-> FALSE, value |-> Null]

\* part_000 74-84: the cached data parsed, null on a miss, null when
\* JSON.parse throws
parseCached(data) ==
    IF truthy(data)
    THEN IF JSONparse(data).ok THEN JSONparse(data).value ELSE Null
    ELSE Null

InitCache ==
    /\ cacheEnv \in {"local", "upstash", "unset"}
    /\ redisClient = "null"
    /\ cacheConnected = FALSE
    /\ cacheStore = InitialStore
    /\ cacheWritten = [k \in CacheKeys |-> NotWritten]
    /\ lastGet = NoGet
    /\ lastSweep = NoSweep

\* part_000 29-52 as the first step of each operation below: connectOk is
\* whether connect() succeeds when it is called
ClientAfter(connectOk) ==
    /\ redisClient' = initializeRedisClient(cacheEnv, redisClient)
    /\ cacheConnected' =
         IF redisClient = "null" /\ cacheEnv = "local" THEN connectOk
         ELSE IF redisClient = "null" /\ cacheEnv = "upstash" THEN TRUE
         ELSE cacheConnected

\* part_000 93-111: setCachedResults(cacheKey, results).  ok: neither
\* connect() nor set() throws.
SetCachedResults(cacheKey, results, ok) ==
    /\ UNCHANGED restOfCache
    /\ UNCHANGED cacheEnv
    /\ ClientAfter(ok)
    /\ lastGet' = NoGet
    /\ lastSweep' = NoSweep
    /\ IF redisClient' # "null" /\ cacheConnected' /\ ok
       THEN /\ cacheStore' =
                 [cacheStore EXCEPT ![cacheKey] =
                     [present |-> TRUE, value |-> results, expires |-> TRUE,
                      ttl |-> CACHE_TTL]]
            /\ cacheWritten' =
                 [cacheWritten EXCEPT ![cacheKey] =
                     [written |-> TRUE, value |-> results, fresh |-> TRUE,
                      gone |-> FALSE]]
       ELSE UNCHANGED <<cacheStore, cacheWritten>>

\* part_000 60-85: getCachedResults(cacheKey)
getCachedResults(cacheKey, ok) ==
    /\ UNCHANGED <<cacheEnv, cacheStore, cacheWritten>>
    /\ ClientAfter(ok)
    /\ lastSweep' = NoSweep
    /\ lastGet' =
         [called |-> TRUE, key |-> cacheKey,
          reached |-> redisClient' # "null" /\ cacheConnected' /\ ok,
          result |->
             IF redisClient' # "null" /\ cacheConnected' /\ ok
             THEN parseCached(clientGet(redisClient', cacheStore[cacheKey]))
             ELSE Null]

\* a call of getCachedResults on its own
GetCachedResults(cacheKey, ok) ==
    /\ UNCHANGED restOfCache
    /\ getCachedResults(cacheKey, ok)

\* part_000 117-133: cleanupExpiredCache, one run of the sweep.  ok: no call
\* of the store throws; otherwise the run ends at the call that throws, after
\* the keys in swept were looked at.  The catch block logs and returns.
CleanupExpiredCache(ok) ==
    /\ UNCHANGED restOfCache
    /\ UNCHANGED cacheEnv
    /\ ClientAfter(ok)
    /\ lastGet' = NoGet
    /\ lastSweep' = [called |-> TRUE, threw |-> FALSE, before |-> cacheStore]
    /\ IF redisClient' # "null" /\ cacheConnected'
       THEN \E swept \in SUBSET clientKeys(cacheStore, "search:") :
               /\ ok => swept = clientKeys(cacheStore, "search:")
               /\ cacheStore' =
                    [k \in StoreKeys |->
                        IF k \in swept /\ ttl(cacheStore[k]) <= 0
                        THEN NoEntry ELSE cacheStore[k]]
               /\ cacheWritten' =
                    [k \in CacheKeys |->
                        IF k \in swept /\ ttl(cacheStore[k]) <= 0
                        THEN [cacheWritten[k] EXCEPT !.gone = TRUE,
                                                     !.fresh = FALSE]
                        ELSE cacheWritten[k]]
       ELSE UNCHANGED <<cacheStore, cacheWritten>>

\* time passes: every expiring key's remaining time shrinks, and the store
\* drops the keys whose time is up
Tick ==
    /\ UNCHANGED restOfCache
    /\ UNCHANGED <<cacheEnv, redisClient, cacheConnected>>
    /\ \E k \in CacheKeys : cacheStore[k].present
    /\ lastGet' = NoGet
    /\ lastSweep' = NoSweep
    /\ cacheStore' =
         [k \in StoreKeys |->
             IF cacheStore[k].present /\ ~cacheStore[k].expires
             THEN cacheStore[k]
             ELSE IF cacheStore[k].present /\ cacheStore[k].ttl > 0
             THEN [cacheStore[k] EXCEPT !.ttl = @ - TickSeconds]
             ELSE NoEntry]
    /\ cacheWritten' =
         [k \in CacheKeys |->
             IF cacheStore[k].present
             THEN [cacheWritten[k] EXCEPT !.fresh = FALSE,
                                          !.gone = cacheStore[k].ttl <= 0]
             ELSE cacheWritten[k]]

NextCache ==
    \/ \E cacheKey \in CacheKeys, results \in CacheValues, ok \in BOOLEAN :
          SetCachedResults(cacheKey, results, ok)
    \/ \E cacheKey \in CacheKeys, ok \in BOOLEAN :
          GetCachedResults(cacheKey, ok)
    \/ \E ok \in BOOLEAN : CleanupExpiredCache(ok)
    \/ Tick

-----------------------------------------------------------------------------
(* The advanced-search endpoint: POST of app/api/advanced-search/route.ts  *)
(* (src/unnamed/part_000 144-175).                                         *)
(*                                                                         *)
(* A request body is text that is no JSON, the JSON null, or a JSON object *)
(* with or without a query field; the other fields of the object are left  *)
(* unset, so that the cache key is determined by the query.                *)

RequestBodies ==
    {[json |-> "invalid", query |-> "undefined"],
     [json |-> "null", query |-> "undefined"],
     [json |-> "object", query |-> "undefined"],
     [json |-> "object", query |-> "a"]}

\* part_000 145: await request.json() and the destructuring of its value
\* both throw before the try block is entered
requestJsonThrows(body) == body.json \in {"invalid", "null"}

\* part_000 148: cacheKey
cacheKey(body) ==
    IF body.query = "a" THEN "search:a" ELSE "search:undefined"

\* part_000 157-163: the placeholder envelope
placeholder(body) ==
    [outcome |-> "response", status |-> 200, error |-> FALSE,
     query |-> body.query, cached |-> Null, empty |-> TRUE]

\* part_000 152-154: the cached value sent as the response
cachedResponse(body, cachedResults) ==
    [outcome |-> "response", status |-> 200, error |-> FALSE,
     query |-> body.query, cached |-> cachedResults, empty |-> FALSE]

\* the exception leaves POST
thrown(body) ==
    [outcome |-> "threw", status |-> 0, error |-> FALSE,
     query |-> body.query, cached |-> Null, empty |-> FALSE]

InitPost == responses = <<>>

\* part_000 144-175: POST(request).  ok: the store answers the lookup.
POST(body, ok) ==
    /\ UNCHANGED restOfPost
    /\ Len(responses) < MaxRequests
    /\ IF requestJsonThrows(body)
       THEN /\ UNCHANGED cacheVars
            /\ responses' = Append(responses, thrown(body))
       ELSE /\ getCachedResults(cacheKey(body), ok)
            /\ responses' =
                 Append(responses,
                        IF truthy([type |-> lastGet'.result.kind,
                                   value |-> lastGet'.result])
                        THEN cachedResponse(body, lastGet'.result)
                        ELSE placeholder(body))

\* mutant of NextPost: some caller writes the cache
NextPostWithWriter ==
    \/ \E body \in RequestBodies, ok \in BOOLEAN : POST(body, ok)
    \/ \E ok \in BOOLEAN : CleanupExpiredCache(ok)
    \/ \E key \in CacheKeys, results \in CacheValues, ok \in BOOLEAN :
          SetCachedResults(key, results, ok)

\* what the route module does: it answers requests and, on its timer,
\* sweeps the cache; setCachedResults has no caller
NextPost ==
    \/ \E body \in RequestBodies, ok \in BOOLEAN : POST(body, ok)
    \/ \E ok \in BOOLEAN : CleanupExpiredCache(ok)

-----------------------------------------------------------------------------
(* fetchJsonWithRetry of app/api/advanced-search/route.ts                  *)
(* (src/unnamed/part_000 436-445).                                         *)

\* part_000 452-485: what fetchJson settles to: it resolves with parsed
\* JSON or with the envelope for a body that is no JSON, or it rejects with
\* a network error, a timeout after 15 seconds or a parse error
FetchOutcomes ==
    {[ok |-> TRUE, value |-> v] : v \in {"json", "notJson"}}
    \cup {[ok |-> FALSE, value |-> e] : e \in {"network", "timeout", "parse"}}

InitRetry ==
    retry = [pc |-> "idle", retries |-> 0, i |-> 0, attempts |-> 0,
             waits |-> <<>>, errors |-> <<>>, result |-> "none"]

\* part_000 436-437: the call and the first test of the loop; with no
\* attempt to make, the function falls off its end and resolves to undefined
FetchJsonWithRetry(retries) ==
    /\ UNCHANGED restOfRetry
    /\ retry.pc = "idle"
    /\ retry' = [retry EXCEPT !.retries = retries,
                              !.pc = IF 0 < retries THEN "attempt"
                                     ELSE "undefined"]

\* part_000 441: if (i === retries - 1) throw error
lastAttempt(i, retries) == i = retries - 1

\* part_000 438-442: one attempt; on a failure the error is rethrown or the
\* backoff timer is started
FetchJson(outcome) ==
    /\ UNCHANGED restOfRetry
    /\ retry.pc = "attempt"
    /\ retry' =
         IF outcome.ok
         THEN [retry EXCEPT !.attempts = @ + 1, !.pc = "returned",
                            !.result = outcome.value]
         ELSE IF lastAttempt(retry.i, retry.retries)
         THEN [retry EXCEPT !.attempts = @ + 1, !.pc = "threw",
                            !.errors = Append(@, outcome.value),
                            !.result = outcome.value]
         ELSE [retry EXCEPT !.attempts = @ + 1, !.pc = "waiting",
                            !.errors = Append(@, outcome.value),
                            !.waits = Append(@, BackoffStep * (retry.i + 1))]

\* part_000 442 and 437: the timer fires, i++ and the test of the loop
BackoffElapsed ==
    /\ UNCHANGED restOfRetry
    /\ retry.pc = "waiting"
    /\ retry' = [retry EXCEPT !.i = @ + 1,
                              !.pc = IF retry.i + 1 < retry.retries
                                     THEN "attempt" ELSE "undefined"]

NextRetry ==
    \/ \E retries \in 0..MaxRetries : FetchJsonWithRetry(retries)
    \/ \E outcome \in FetchOutcomes : FetchJson(outcome)
    \/ BackoffElapsed

-----------------------------------------------------------------------------
(* The chat store: lib/actions/chat.ts over lib/redis/config.ts and        *)
(* lib/redis/server-utils.ts.                                              *)
(*                                                                         *)
(* A JavaScript value is [t, enc, of]:                                     *)
(*   a string   [t |-> "string", enc, of]: enc "plain" (of: the text),     *)
(*              "json" (the JSON text of the value of), "iso" and          *)
(*              "toString" (a date written by toISOString or by            *)
(*              String(date); of: its milliseconds);                       *)
(*   an array   [t |-> "array", enc |-> "", of |-> the sequence];          *)
(*   a Date     [t |-> "Date", enc |-> "valid" or "invalid", of |-> ms].   *)
(* A hash holds one stored string per field.  A chat's title, path and     *)
(* userId are plain strings like its id and are left out.                  *)

ChatIds == {"c1", "c2"}
UserIds == {"anonymous", "u2"}
ChatFields == {"id", "userId", "createdAt", "messages", "sharePath"}

String(enc, of) == [t |-> "string", enc |-> enc, of |-> of]
Array(seq) == [t |-> "array", enc |-> "", of |-> seq]
Date(ms) == [t |-> "Date", enc |-> "valid", of |-> ms]
InvalidDate == [t |-> "Date", enc |-> "invalid", of |-> 0]

\* a transcript of n messages
Transcript(n) ==
    [i \in 1..n |-> IF i % 2 = 1 THEN UserInput
                    ELSE Msg("assistant", "answer", "text", 0)]

\* the chats saveChat is given: Chat of lib/types/index.ts, without a
\* sharePath
ChatsOf(owners, createdAts, lengths) ==
    {[id |-> String("plain", id), userId |-> String("plain", u),
      createdAt |-> Date(ms), messages |-> Array(Transcript(n))] :
        id \in ChatIds, u \in owners, ms \in createdAts, n \in lengths}

\* chats of any length
Chats == ChatsOf({"anonymous"}, {1500}, 0..MaxMessages)

\* chats created at any time
HistoryChats ==
    ChatsOf({"anonymous"}, {t * 1000 : t \in 0..MaxClock}, {1})

\* chats of any owner
ShareChats == ChatsOf(UserIds, {1500}, {1})

\* the order of the chat keys as strings
KeyRank(key) == IF key[2] = "c1" THEN 1 ELSE 2

ChatKey(id) == <<"chat:", id>>
ChatKeys == {ChatKey(id) : id \in ChatIds}

NoHash == [present |-> FALSE, fields |-> <<>>]
NoChat ==
    [called |-> FALSE, id |-> "c1", reached |-> FALSE, found |-> FALSE,
     chat |-> <<>>]
NeverSaved == 0 - 1
NotSaved ==
    [saved |-> FALSE, chat |-> <<>>, at |-> [u \in UserIds |-> NeverSaved],
     shared |-> FALSE]
Idle ==
    [op |-> "none", userId |-> "", id |-> "", reached |-> FALSE,
     error |-> "", found |-> FALSE, chat |-> <<>>, chats |-> <<>>]

\* JSON.stringify: of an array its JSON text; of a Date the JSON text of its
\* ISO string; of a string the JSON text of the string
JSONstringify(v) ==
    IF v.t = "Date" THEN String("json", String("iso", v.of))
    ELSE String("json", v)

\* String(v): a string is itself; a Date is written to the second
StringOf(v) ==
    IF v.t = "string" THEN v
    ELSE IF v.t = "Date" THEN String("toString", (v.of \div 1000) * 1000)
    ELSE String("plain", v.of)

\* new Date(v) of a string: a date string is read back, another is no date
newDate(v) ==
    IF v.t = "string" /\ v.enc \in {"iso", "toString"} THEN Date(v.of)
    ELSE InvalidDate

\* config.ts 306-313: LocalPipelineWrapper.hmset, String(v) of every value
localHmset(value) ==
    [f \in DOMAIN value |-> StringOf(value[f])]

\* config.ts 225-228: UpstashPipelineWrapper.hmset; the REST client sends a
\* string as it is and any other value as its JSON text
upstashHmset(value) ==
    [f \in DOMAIN value |->
        IF value[f].t = "string" THEN value[f] ELSE JSONstringify(value[f])]

\* config.ts 82-85: hGetAll of the socket client, the stored strings, and
\* null for an empty result
localHgetall(hash) ==
    IF hash.present THEN [found |-> TRUE, chat |-> hash.fields]
    ELSE [found |-> FALSE, chat |-> <<>>]

\* config.ts 80-81: hgetall of the REST client, which parses every stored
\* string that is a JSON text and leaves the others as they are
upstashHgetall(hash) ==
    IF hash.present
    THEN [found |-> TRUE,
          chat |-> [f \in DOMAIN hash.fields |->
                       IF hash.fields[f].enc = "json" THEN hash.fields[f].of
                       ELSE hash.fields[f]]]
    ELSE [found |-> FALSE, chat |-> <<>>]

\* mutant of parseChatMessages: the messages are left as they were read
parseChatMessagesRaw(chat) ==
    [chat EXCEPT
        !["createdAt"] = IF @.t # "Date" THEN newDate(@) ELSE @]

\* chat.ts 27-40: parseChatMessages
parseChatMessages(chat) ==
    [chat EXCEPT
        !["messages"] =
            IF @.t = "string"
            THEN IF @.enc = "json" THEN @.of ELSE Array(<<>>)
            ELSE @,
        !["createdAt"] = IF @.t # "Date" THEN newDate(@) ELSE @]

\* HSET: the fields given are set, the others are kept
hset(hash, fields) ==
    [present |-> TRUE,
     fields |-> [f \in (DOMAIN hash.fields) \cup (DOMAIN fields) |->
                    IF f \in DOMAIN fields THEN fields[f]
                    ELSE hash.fields[f]]]

\* chat.ts 153-156: chatToSave
chatToSave(chat) ==
    [chat EXCEPT !["messages"] = JSONstringify(chat.messages)]

InitChat ==
    /\ storeEnv \in {"local", "upstash", "unset"}
    /\ redisWrapper = "null"
    /\ localRedisClient = "null"
    /\ storeConnected = FALSE
    /\ chatHashes = [k \in ChatKeys |-> NoHash]
    /\ userIndex = [u \in UserIds |-> {}]
    /\ now = 0
    /\ chatSaved = [id \in ChatIds |-> NotSaved]
    /\ lastChat = NoChat
    /\ lastCall = Idle

\* server-utils.ts 26-113: getRedisClientServer.  connectOk is whether
\* connect() succeeds when it is called.  threw: the call throws.
getRedisClientServerThrows(connectOk) ==
    /\ redisWrapper = "null"
    /\ \/ storeEnv = "unset"
       \/ storeEnv = "local" /\ localRedisClient = "null" /\ ~connectOk

getRedisClientServer(connectOk) ==
    /\ localRedisClient' =
         IF redisWrapper = "null" /\ storeEnv = "local" THEN "client"
         ELSE localRedisClient
    /\ storeConnected' =
         IF redisWrapper = "null" /\ storeEnv = "local"
              /\ localRedisClient = "null"
         THEN connectOk
         ELSE IF redisWrapper = "null" /\ storeEnv = "upstash" THEN TRUE
         ELSE storeConnected
    /\ redisWrapper' =
         IF redisWrapper # "null" \/ getRedisClientServerThrows(connectOk)
         THEN redisWrapper
         ELSE storeEnv

\* whether a command sent through the wrapper reaches the store
Reaches(ok) == redisWrapper' # "null" /\ storeConnected' /\ ok

\* chat.ts 148-168: saveChat(chat, userId).  ok: neither connect() nor the
\* pipeline throws.
SaveChat(chat, userId, ok) ==
    /\ UNCHANGED restOfChat
    /\ UNCHANGED <<storeEnv, now>>
    /\ getRedisClientServer(ok)
    /\ lastChat' = NoChat
    /\ lastCall' = Idle
    /\ IF ~getRedisClientServerThrows(ok) /\ Reaches(ok)
       THEN /\ chatHashes' =
                 [chatHashes EXCEPT ![ChatKey(chat.id.of)] =
                     hset(@, IF redisWrapper' = "upstash"
                             THEN upstashHmset(chatToSave(chat))
                             ELSE localHmset(chatToSave(chat)))]
            /\ userIndex' =
                 [userIndex EXCEPT ![userId] =
                     {e \in @ : e.member # ChatKey(chat.id.of)}
                     \cup {[member |-> ChatKey(chat.id.of), score |-> now]}]
            /\ chatSaved' =
                 [chatSaved EXCEPT ![chat.id.of] =
                     [saved |-> TRUE, chat |-> chat,
                      at |-> [@.at EXCEPT ![userId] = now],
                      shared |-> @.shared]]
       ELSE UNCHANGED <<chatHashes, userIndex, chatSaved>>

\* chat.ts 89-106: getChat(id)
GetChat(id, ok) ==
    /\ UNCHANGED restOfChat
    /\ UNCHANGED <<storeEnv, now, chatHashes, userIndex, chatSaved>>
    /\ getRedisClientServer(ok)
    /\ lastCall' = Idle
    /\ lastChat' =
         IF ~getRedisClientServerThrows(ok) /\ Reaches(ok)
         THEN LET got == IF redisWrapper' = "upstash"
                         THEN upstashHgetall(chatHashes[ChatKey(id)])
                         ELSE localHgetall(chatHashes[ChatKey(id)])
              IN  [called |-> TRUE, id |-> id, reached |-> TRUE,
                   found |-> got.found,
                   chat |-> IF got.found THEN parseChatMessages(got.chat)
                            ELSE <<>>]
         ELSE [called |-> TRUE, id |-> id, reached |-> FALSE,
               found |-> FALSE, chat |-> <<>>]

\* a second passes
ClockTick ==
    /\ UNCHANGED restOfChat
    /\ UNCHANGED <<storeEnv, redisWrapper, localRedisClient, storeConnected,
                   chatHashes, userIndex, chatSaved>>
    /\ now < MaxClock
    /\ now' = now + 1
    /\ lastChat' = NoChat
    /\ lastCall' = Idle

NextChat ==
    \/ \E chat \in Chats, userId \in UserIds, ok \in BOOLEAN :
          SaveChat(chat, userId, ok)
    \/ \E id \in ChatIds, ok \in BOOLEAN : GetChat(id, ok)
    \/ ClockTick

\* mutant of zrangeRev: the members in ascending order
RECURSIVE zrangeAscending(_)
zrangeAscending(set) ==
    IF set = {} THEN <<>>
    ELSE LET first == CHOOSE e \in set : \A f \in set :
                          \/ e.score < f.score
                          \/ e.score = f.score
                               /\ KeyRank(e.member) <= KeyRank(f.member)
         IN  <<first.member>> \o zrangeAscending(set \ {first})

\* config.ts 52-70: zrange(key, 0, -1, {rev: true}), the members from the
\* highest score to the lowest, members of one score in descending order
RECURSIVE zrangeRev(_)
zrangeRev(set) ==
    IF set = {} THEN <<>>
    ELSE LET top == CHOOSE e \in set : \A f \in set :
                        \/ f.score < e.score
                        \/ f.score = e.score
                             /\ KeyRank(f.member) <= KeyRank(e.member)
         IN  <<top.member>> \o zrangeRev(set \ {top})

\* config.ts 77-86: hgetall of the wrapper in use
hgetall(wrapper, hash) ==
    IF wrapper = "upstash" THEN upstashHgetall(hash) ELSE localHgetall(hash)

\* chat.ts 53-76: what getChats resolves to when the store answers
listChats(wrapper, index, hashes) ==
    LET keys == zrangeRev(index)
        results == [i \in 1..Len(keys) |-> hgetall(wrapper, hashes[keys[i]])]
        kept == SelectSeq(results, LAMBDA result : result.found)
    IN  [i \in 1..Len(kept) |-> parseChatMessages(kept[i].chat)]

\* chat.ts 47-81: getChats(userId); "" stands for no user id
GetChats(userId, ok) ==
    /\ UNCHANGED restOfChat
    /\ UNCHANGED <<storeEnv, now, chatHashes, userIndex, chatSaved>>
    /\ lastChat' = NoChat
    /\ IF userId = ""
       THEN /\ UNCHANGED <<redisWrapper, localRedisClient, storeConnected>>
            /\ lastCall' = [Idle EXCEPT !.op = "getChats"]
       ELSE /\ getRedisClientServer(ok)
            /\ lastCall' =
                 IF ~getRedisClientServerThrows(ok) /\ Reaches(ok)
                 THEN [Idle EXCEPT !.op = "getChats", !.userId = userId,
                                   !.reached = TRUE,
                                   !.chats = listChats(redisWrapper',
                                                       userIndex[userId],
                                                       chatHashes)]
                 ELSE [Idle EXCEPT !.op = "getChats", !.userId = userId]

\* next/navigation: redirect() throws the NEXT_REDIRECT error
redirectThrows == TRUE

\* chat.ts 114-139: clearChats(userId).  ok: the store answers zrange and
\* executes the pipeline.
ClearChats(userId, ok) ==
    /\ UNCHANGED restOfChat
    /\ UNCHANGED <<storeEnv, now>>
    /\ lastChat' = NoChat
    /\ getRedisClientServer(ok)
    /\ IF ~getRedisClientServerThrows(ok) /\ Reaches(ok)
       THEN LET chats == {e.member : e \in userIndex[userId]}
            IN  IF chats = {}
                THEN /\ UNCHANGED <<chatHashes, userIndex, chatSaved>>
                     /\ lastCall' =
                          [Idle EXCEPT !.op = "clearChats",
                                       !.userId = userId, !.reached = TRUE,
                                       !.error = "No chats to clear"]
                ELSE /\ chatHashes' =
                          [k \in ChatKeys |->
                              IF k \in chats THEN NoHash ELSE chatHashes[k]]
                     /\ userIndex' = [userIndex EXCEPT ![userId] = {}]
                     /\ chatSaved' =
                          [id \in ChatIds |->
                              IF ChatKey(id) \in chats
                              THEN [NotSaved EXCEPT
                                       !.at = [chatSaved[id].at EXCEPT
                                                  ![userId] = NeverSaved]]
                              ELSE chatSaved[id]]
                     /\ lastCall' =
                          [Idle EXCEPT !.op = "clearChats",
                                       !.userId = userId, !.reached = TRUE,
                                       !.found = TRUE,
                                       !.error = IF redirectThrows
                                                 THEN "Failed to clear chats"
                                                 ELSE ""]
       ELSE /\ UNCHANGED <<chatHashes, userIndex, chatSaved>>
            /\ lastCall' =
                 [Idle EXCEPT !.op = "clearChats", !.userId = userId,
                              !.error = "Failed to clear chats"]

\* chat.ts 211-214: payload
sharePayload(chat, id) ==
    [f \in (DOMAIN chat) \cup {"sharePath"} |->
        IF f = "sharePath" THEN String("plain", <<"/share/", id>>)
        ELSE chat[f]]

\* config.ts 104-110: hmset of the wrapper; the socket client is given the
\* strings it read, the REST client writes a string as it is and another
\* value as its JSON text
hmset(wrapper, value) ==
    IF wrapper = "upstash" THEN upstashHmset(value) ELSE value

\* mutant of notOwned: any user may share a chat that exists
notOwnedByNobody(got, userId) == ~got.found

\* chat.ts 207: !chat || chat.userId !== userId
notOwned(got, userId) ==
    \/ ~got.found
    \/ "userId" \notin DOMAIN got.chat
    \/ got.chat["userId"].of # userId

\* chat.ts 199-223: shareChat(id, userId).  readOk, writeOk: the store
\* answers hgetall, hmset.
ShareChat(id, userId, readOk, writeOk) ==
    /\ UNCHANGED restOfChat
    /\ UNCHANGED <<storeEnv, now, userIndex>>
    /\ lastChat' = NoChat
    /\ getRedisClientServer(readOk)
    /\ LET reached == ~getRedisClientServerThrows(readOk) /\ Reaches(readOk)
           got == hgetall(redisWrapper', chatHashes[ChatKey(id)])
       IN  IF reached /\ ~notOwned(got, userId) /\ writeOk
           THEN /\ chatHashes' =
                     [chatHashes EXCEPT ![ChatKey(id)] =
                         hset(@, hmset(redisWrapper',
                                       sharePayload(got.chat, id)))]
                /\ chatSaved' = [chatSaved EXCEPT ![id].shared = TRUE]
                /\ lastCall' =
                     [Idle EXCEPT !.op = "shareChat", !.userId = userId,
                                  !.id = id, !.reached = TRUE,
                                  !.found = TRUE,
                                  !.chat = sharePayload(got.chat, id)]
           ELSE /\ UNCHANGED <<chatHashes, chatSaved>>
                /\ lastCall' =
                     [Idle EXCEPT !.op = "shareChat", !.userId = userId,
                                  !.id = id, !.reached = reached]

\* chat.ts 181: !chat || !chat.sharePath
notShared(got) ==
    \/ ~got.found
    \/ "sharePath" \notin DOMAIN got.chat
    \/ got.chat["sharePath"].of = <<>>

\* chat.ts 176-190: getSharedChat(id)
GetSharedChat(id, ok) ==
    /\ UNCHANGED restOfChat
    /\ UNCHANGED <<storeEnv, now, chatHashes, userIndex, chatSaved>>
    /\ lastChat' = NoChat
    /\ getRedisClientServer(ok)
    /\ LET reached == ~getRedisClientServerThrows(ok) /\ Reaches(ok)
           got == hgetall(redisWrapper', chatHashes[ChatKey(id)])
       IN  lastCall' =
               IF reached /\ ~notShared(got)
               THEN [Idle EXCEPT !.op = "getSharedChat", !.id = id,
                                 !.reached = TRUE, !.found = TRUE,
                                 !.chat = parseChatMessages(got.chat)]
               ELSE [Idle EXCEPT !.op = "getSharedChat", !.id = id,
                                 !.reached = reached]

\* the history of the users: chats are saved, listed and cleared
NextHistory ==
    \/ \E chat \in {c \in HistoryChats : c.createdAt.of <= now * 1000},
          userId \in UserIds, ok \in BOOLEAN : SaveChat(chat, userId, ok)
    \/ \E userId \in UserIds \cup {""}, ok \in BOOLEAN : GetChats(userId, ok)
    \/ \E userId \in UserIds, ok \in BOOLEAN : ClearChats(userId, ok)
    \/ ClockTick

\* sharing: chats are saved, shared and read through their share page
NextShare ==
    \/ \E chat \in ShareChats, userId \in UserIds, ok \in BOOLEAN :
          SaveChat(chat, userId, ok)
    \/ \E id \in ChatIds, userId \in UserIds, readOk, writeOk \in BOOLEAN :
          ShareChat(id, userId, readOk, writeOk)
    \/ \E id \in ChatIds, ok \in BOOLEAN : GetSharedChat(id, ok)
    \/ \E id \in ChatIds, ok \in BOOLEAN : GetChat(id, ok)

-----------------------------------------------------------------------------
(* getRedisClientServer and closeRedisConnectionServer call by call        *)
(* (lib/redis/server-utils.ts; getRedisClient and closeRedisConnection of  *)
(* lib/redis/config.ts 346-453 are the same code).  A call runs up to its  *)
(* next await in one step, and the calls of several callers interleave at  *)
(* the awaits.  A client is its number in clients; 0 is null.              *)

\* callers that may have a call of getRedisClientServer in progress
MaxCallers == 2

\* clients created in one run
MaxClients == 3

\* calls of closeRedisConnectionServer in one run
MaxCloses == 2

Callers == 1..MaxCallers

NoWrapper == [some |-> FALSE, client |-> 0]

RedisWrapper(id) == [some |-> TRUE, client |-> id]

NoGetter == [pc |-> "idle", client |-> 0, result |-> NoWrapper,
             wrapped |-> "none"]

\* the state of the client a wrapper is around
StateOf(cs, id) == IF id = 0 THEN "null" ELSE cs[id].state

InitConn ==
    /\ handles = [localRedisClient |-> 0, redisWrapper |-> NoWrapper]
    /\ clients = <<>>
    /\ getters = [c \in Callers |-> NoGetter]
    /\ closer = [closes |-> 0, last |-> "none"]

\* the call of caller c returns the wrapper w
Returned(w, cs) ==
    [pc |-> "returned", client |-> 0, result |-> w,
     wrapped |-> StateOf(cs, w.client)]

\* server-utils.ts 26-32 and 69-113: a call of getRedisClientServer up to
\* its first await, or to its end when it does not get to one
GetRedisClientServer(c) ==
    /\ UNCHANGED restOfConn
    /\ getters[c].pc \in {"idle", "returned", "threw"}
    /\ closer' = [closer EXCEPT !.last = "none"]
    /\ IF handles.redisWrapper.some
       THEN /\ getters' =
                 [getters EXCEPT ![c] = Returned(handles.redisWrapper, clients)]
            /\ UNCHANGED <<handles, clients>>
       ELSE IF storeEnv = "local"
       THEN IF handles.localRedisClient = 0
            THEN /\ Len(clients) + Cardinality({d \in Callers :
                        getters[d].pc = "importing"}) < MaxClients
                 /\ getters' = [getters EXCEPT ![c] =
                                   [NoGetter EXCEPT !.pc = "importing"]]
                 /\ UNCHANGED <<handles, clients>>
            ELSE /\ handles' =
                      [handles EXCEPT
                          !.redisWrapper = RedisWrapper(handles.localRedisClient)]
                 /\ getters' =
                      [getters EXCEPT ![c] =
                          Returned(handles'.redisWrapper, clients)]
                 /\ UNCHANGED clients
       ELSE IF storeEnv = "upstash"
       THEN /\ Len(clients) < MaxClients
            /\ clients' = Append(clients,
                                 [kind |-> "rest", state |-> "open", quits |-> 0])
            /\ handles' =
                 [handles EXCEPT !.redisWrapper = RedisWrapper(Len(clients'))]
            /\ getters' =
                 [getters EXCEPT ![c] = Returned(handles'.redisWrapper, clients')]
       ELSE /\ getters' = [getters EXCEPT ![c] =
                              [NoGetter EXCEPT !.pc = "threw"]]
            /\ UNCHANGED <<handles, clients>>

\* server-utils.ts 35-37: import('redis') has resolved; createClient, the
\* assignment to localRedisClient and the call of connect()
CreateClient(c) ==
    /\ UNCHANGED restOfConn
    /\ getters[c].pc = "importing"
    /\ clients' = Append(clients, [kind |-> "socket", state |-> "connecting",
                                   quits |-> 0])
    /\ handles' = [handles EXCEPT !.localRedisClient = Len(clients')]
    /\ getters' = [getters EXCEPT ![c] =
                      [NoGetter EXCEPT !.pc = "connecting",
                                       !.client = Len(clients')]]
    /\ closer' = [closer EXCEPT !.last = "none"]

\* server-utils.ts 37-70 and 113: connect() has settled.  ok: it resolved,
\* and the call wraps what localRedisClient holds now; otherwise the catch
\* block logs and throws the generic failure.
Connect(c, ok) ==
    /\ UNCHANGED restOfConn
    /\ getters[c].pc = "connecting"
    /\ closer' = [closer EXCEPT !.last = "none"]
    /\ IF ok
       THEN /\ clients' = [clients EXCEPT ![getters[c].client].state = "open"]
            /\ handles' =
                 [handles EXCEPT
                     !.redisWrapper = RedisWrapper(handles.localRedisClient)]
            /\ getters' =
                 [getters EXCEPT ![c] = Returned(handles'.redisWrapper, clients')]
       ELSE /\ clients' = [clients EXCEPT ![getters[c].client].state = "failed"]
            /\ getters' = [getters EXCEPT ![c] =
                              [NoGetter EXCEPT !.pc = "threw"]]
            /\ UNCHANGED handles

\* node-redis: quit() of an open client resolves and quit() of a closed
\* client rejects; for a client that is connecting, or whose connect()
\* failed, either may happen
quitThrows(cs, id) ==
    IF StateOf(cs, id) = "open" THEN {FALSE}
    ELSE IF StateOf(cs, id) \in {"closed", "null"} THEN {TRUE}
    ELSE BOOLEAN

\* quit() is issued on client id, and throws or not
quit(cs, id, throws) ==
    IF id = 0 THEN cs
    ELSE [cs EXCEPT ![id] =
             [@ EXCEPT !.quits = @ + 1,
                       !.state = IF throws THEN @ ELSE "closed"]]

\* config.ts 165-172: RedisWrapper.close() quits a socket client and does
\* nothing for the REST client
closeQuits(cs, w) == w.client = 0 \/ cs[w.client].kind = "socket"

\* server-utils.ts 122-131: closeRedisConnectionServer
CloseRedisConnectionServer ==
    /\ UNCHANGED restOfConn
    /\ UNCHANGED getters
    /\ closer.closes < MaxCloses
    /\ LET w == handles.redisWrapper
           first == w.some /\ closeQuits(clients, w)
       IN  \E firstThrows \in
                 IF first THEN quitThrows(clients, w.client) ELSE {FALSE} :
             LET afterFirst == IF first
                               THEN quit(clients, w.client, firstThrows)
                               ELSE clients
                 second == ~firstThrows /\ handles.localRedisClient # 0
             IN  \E secondThrows \in
                       IF second
                       THEN quitThrows(afterFirst, handles.localRedisClient)
                       ELSE {FALSE} :
                   /\ clients' =
                        IF second
                        THEN quit(afterFirst, handles.localRedisClient,
                                  secondThrows)
                        ELSE afterFirst
                   /\ handles' =
                        [localRedisClient |->
                            IF second /\ ~secondThrows THEN 0
                            ELSE handles.localRedisClient,
                         redisWrapper |->
                            IF firstThrows THEN w ELSE NoWrapper]
                   /\ closer' = [closes |-> closer.closes + 1,
                                 last |-> IF firstThrows \/ secondThrows
                                          THEN "threw" ELSE "returned"]

NextConn ==
    \/ \E c \in Callers : GetRedisClientServer(c)
    \/ \E c \in Callers : CreateClient(c)
    \/ \E c \in Callers, ok \in BOOLEAN : Connect(c, ok)
    \/ CloseRedisConnectionServer

-----------------------------------------------------------------------------
(* Specifications: one per part of the program; the parts share no state,  *)
(* so each one runs with the others at rest.                               *)

WorkflowAtRest == InitWorkflow /\ ~skip /\ aiInit = <<UserInput>>

CacheAtRest == InitCache /\ cacheEnv = "local"

ChatAtRest == InitChat /\ storeEnv = "local"

Init ==
    /\ InitWorkflow /\ InitSearch /\ CacheAtRest /\ ChatAtRest
    /\ InitPost /\ InitRetrieve
    /\ InitRetry /\ InitConn

Spec == Init /\ [][NextWorkflow]_vars

\* the workflow and the client's effect keep running while they can
SpecClient == Init /\ [][NextWorkflow]_vars /\ WF_vars(NextWorkflow)

InitSearchSpec ==
    WorkflowAtRest /\ InitSearch /\ CacheAtRest /\ ChatAtRest /\ InitPost /\ InitRetrieve
    /\ InitRetry /\ InitConn

SpecSearch == InitSearchSpec /\ [][NextTools]_vars

InitCacheSpec ==
    WorkflowAtRest /\ InitSearch /\ InitCache /\ ChatAtRest /\ InitPost /\ InitRetrieve
    /\ InitRetry /\ InitConn

SpecCache == InitCacheSpec /\ [][NextCache]_vars

InitChatSpec ==
    WorkflowAtRest /\ InitSearch /\ CacheAtRest /\ InitChat /\ InitPost /\ InitRetrieve
    /\ InitRetry /\ InitConn

SpecChat == InitChatSpec /\ [][NextChat]_vars

SpecHistory == InitChatSpec /\ [][NextHistory]_vars

SpecShare == InitChatSpec /\ [][NextShare]_vars

InitPostSpec ==
    WorkflowAtRest /\ InitSearch /\ InitCache /\ ChatAtRest /\ InitPost /\ InitRetrieve
    /\ InitRetry /\ InitConn

SpecPost == InitPostSpec /\ [][NextPost]_vars

SpecRetry ==
    InitSearchSpec /\ [][NextRetry]_vars /\ WF_vars(NextRetry)

SpecConn == InitChatSpec /\ [][NextConn]_vars

-----------------------------------------------------------------------------
(* Properties of workflow() *)

\* the messages workflow() has added to the AI state
Added == SubSeq(aiMessages, Len(aiInit) + 1, Len(aiMessages))

KeepsTranscript ==
    /\ Len(aiMessages) >= Len(aiInit)
    /\ SubSeq(aiMessages, 1, Len(aiInit)) = aiInit

TypesOf(msgs) == [i \in 1..Len(msgs) |-> msgs[i].type]

ProceedOrder ==
    /\ (pc = "returned" /\ action = "proceed" /\ faults = {}) =>
          LET n == Len(Added)
          IN  /\ KeepsTranscript
              /\ aiDone
              /\ n >= 3
              /\ \A i \in 1..(n - 3) : Added[i].type = "tool"
              /\ Added[n - 2].type = "answer"
              /\ Added[n - 1].type = "related"
              /\ Added[n].type = "followup"
    /\ ("querySuggestor" \in calls) =>
          /\ Len(Added) >= 1
          /\ \E i \in 1..Len(Added) :
                /\ Added[i].type = "answer"
                /\ Added[i].text = answer.text
                /\ \A j \in 1..Len(Added) : Added[j].type = "related" => i < j

ProceedOrderWitness ==
    /\ pc = "returned"
    /\ action = "proceed"
    /\ faults = {}
    /\ Len(Added) = 5
    /\ Added[1].type = "tool"

\* C3: on the proceed path the number of 'tool' messages added to the AI
\* state equals the number of tool calls executed during the research step.
ToolMessagePerToolCall ==
    (pc = "returned" /\ action = "proceed" /\ faults = {}) =>
        Cardinality({i \in 1..Len(Added) : Added[i].type = "tool"}) = executed

\* C4: every 'related' message added by the proceed path carries exactly 3
\* suggestions.
RelatedHasThreeItems ==
    \A i \in 1..Len(Added) :
        Added[i].type = "related" => Added[i].items = RelatedLength

\* C5: no failure leaves workflow(): whichever step throws, the request ends
\* with the AI state finished and carrying an 'error' field.
WorkflowNeverThrows ==
    /\ pc # "threw"
    /\ (pc = "returned"
          /\ faults \cap {"inquire", "querySuggestor", "updateAIState",
                          "completeAIState"} # {}) =>
          (aiDone /\ aiError)

\* the failures of a model invocation that reach the user: the error field
\* of the AI state, or the researcher's fallback text as the answer
UserFacingError ==
    \/ aiError
    \/ \E i \in 1..Len(Added) :
          Added[i].type = "answer" /\ Added[i].text = ErrorText

-----------------------------------------------------------------------------
(* Properties of the search tool *)

\* C7: a call with max_results <= 0 returns results = [], images = [] and
\* number_of_results = 0, and sends nothing upstream.
NonPositiveMaxResultsIsEmpty ==
    (toolCall.called /\ toolCall.max_results <= 0) =>
        /\ toolResult.results = <<>>
        /\ toolResult.images = <<>>
        /\ toolResult.number_of_results = 0
        /\ ~toolRequest.sent

NonPositiveMaxResultsWitness ==
    /\ toolCall.called
    /\ toolCall.max_results = 0
    /\ toolCall.variant = "part_013"
    /\ ~toolRequest.sent

IsPrefix(s, t) == Len(s) <= Len(t) /\ SubSeq(t, 1, Len(s)) = s

\* C8: the query sent upstream for a query shorter than 5 characters has
\* exactly 5 characters and starts with the original query; a query of 5 or
\* more characters is sent unchanged.
ShortQueryIsPadded ==
    toolRequest.sent =>
        IF Len(toolCall.query) < 5
        THEN /\ Len(toolRequest.query) = 5
             /\ IsPrefix(toolCall.query, toolRequest.query)
        ELSE toolRequest.query = toolCall.query

ShortQueryIsPaddedWitness ==
    /\ toolRequest.sent
    /\ toolCall.query = <<"w", "w">>
    /\ toolRequest.query = <<"w", "w", " ", " ", " ">>

\* C30: for a search tool call with max_results > 0, the count sent
\* upstream is the larger of max_results and 5: never below 5, and the
\* requested count when that is 5 or more.
UpstreamCountIsAtLeastFive ==
    (toolRequest.sent /\ toolCall.max_results > 0) =>
        /\ toolRequest.max_results >= 5
        /\ toolRequest.max_results >= toolCall.max_results
        /\ toolRequest.max_results \in {5, toolCall.max_results}
        /\ toolCall.max_results >= 5 =>
               toolRequest.max_results = toolCall.max_results

UpstreamCountIsAtLeastFiveWitness ==
    /\ toolRequest.sent
    /\ toolCall.max_results \in 1..4
    /\ toolRequest.max_results = 5

-----------------------------------------------------------------------------
(* Properties of the search-result cache *)

\* C9: a getCachedResults(K) made right after a successful
\* setCachedResults(K, V), and reaching the store, returns V; one made after
\* K's time has run out, or after the sweep has removed K, returns null.
CacheRoundTrip ==
    lastGet.called =>
        LET w == cacheWritten[lastGet.key]
        IN  /\ (w.written /\ w.fresh /\ lastGet.reached) =>
                  lastGet.result = w.value
            /\ (w.written /\ w.gone) => lastGet.result = Null

\* C23: one run of cleanupExpiredCache removes only search:* keys whose
\* reported TTL is <= 0, leaves every key with a positive TTL and every key
\* outside search:* as it was, and does not throw, whether or not the store
\* failed during the run.
SweepIsNarrow ==
    lastSweep.called =>
        /\ ~lastSweep.threw
        /\ \A k \in StoreKeys :
               \/ cacheStore[k] = lastSweep.before[k]
               \/ /\ KeyPrefix[k] = "search:"
                  /\ ttl(lastSweep.before[k]) <= 0
                  /\ cacheStore[k] = NoEntry
        /\ \A k \in StoreKeys :
               (ttl(lastSweep.before[k]) > 0 \/ KeyPrefix[k] # "search:") =>
                   cacheStore[k] = lastSweep.before[k]

\* a sweep that removed one key next to a key with time left and a key of
\* another prefix
SweepIsNarrowWitness ==
    /\ lastSweep.called
    /\ \E k \in CacheKeys :
           lastSweep.before[k].present /\ ~cacheStore[k].present
    /\ \E k \in CacheKeys :
           ttl(lastSweep.before[k]) > 0 /\ cacheStore[k].present
    /\ \E k \in OtherKeys : cacheStore[k].present

-----------------------------------------------------------------------------
(* Properties of the chat store *)

\* C10: on both store backends, a getChat(id) that reaches the store after
\* saveChat stored a chat with N messages under id returns a chat whose
\* messages are an array equal to the N saved messages and whose createdAt
\* is a valid Date.
ChatRoundTrip ==
    (lastChat.called /\ lastChat.reached /\ chatSaved[lastChat.id].saved) =>
        (/\ lastChat.found
            /\ lastChat.chat.messages.t = "array"
            /\ lastChat.chat.messages =
                  chatSaved[lastChat.id].chat.messages
            /\ Len(lastChat.chat.messages.of) =
                  Len(chatSaved[lastChat.id].chat.messages.of)
            /\ lastChat.chat.createdAt.t = "Date"
            /\ lastChat.chat.createdAt.enc = "valid")

ChatRoundTripWitnessOn(backend) ==
    /\ lastChat.called
    /\ lastChat.found
    /\ redisWrapper = backend
    /\ chatSaved[lastChat.id].saved
    /\ Len(lastChat.chat.messages.of) = 2
    /\ chatSaved[lastChat.id].chat.createdAt.of = 1500

ChatRoundTripWitness == ChatRoundTripWitnessOn("upstash")

ChatRoundTripLocalWitness == ChatRoundTripWitnessOn("local")

-----------------------------------------------------------------------------
(* Properties of the advanced-search endpoint *)

\* C11: the POST handler never lets an exception reach the transport
\* layer: every request, also one whose body is no JSON or lacks the
\* expected fields, and one whose cache lookup fails, is answered with the
\* result envelope or with a status-500 envelope that carries an error.
PostNeverThrows ==
    \A i \in 1..Len(responses) :
        /\ responses[i].outcome = "response"
        /\ responses[i].status = 200 \/
              (responses[i].status = 500 /\ responses[i].error)

\* C12: every successful response of the POST handler is empty, since the
\* program never writes a cache entry.
PostAlwaysEmpty ==
    \A i \in 1..Len(responses) :
        (responses[i].outcome = "response" /\ responses[i].status = 200) =>
            /\ responses[i].empty
            /\ responses[i].cached = Null

PostAlwaysEmptyWitness ==
    /\ Len(responses) = MaxRequests
    /\ responses[1].outcome = "response"
    /\ responses[MaxRequests].outcome = "response"
    /\ responses[MaxRequests].query = "a"
    /\ lastGet.called /\ lastGet.reached

-----------------------------------------------------------------------------
(* Properties of the tool boundary *)

UpstreamFailures == {"nokey", "non2xx", "malformed", "noraw"}

\* C13: an upstream failure never throws out of the search or the retrieve
\* tool's execute; it becomes a result with empty data that the caller can
\* tell apart from the result of a successful call that found nothing.
ToolFailureIsFlagged ==
    /\ (toolCall.called /\ toolRequest.sent /\ toolResult.errored) =>
           /\ toolResult.results = <<>>
           /\ toolResult.images = <<>>
    /\ (retrieved.called /\ retrieved.answer.kind \in UpstreamFailures) =>
           /\ ~retrieved.threw
           /\ retrieved.result.results = <<>>
           /\ retrieved.result #
                 retrieveResult([kind |-> "noresults", raw_content |-> <<>>])

\* C14: the content the retrieve tool returns is at most 10,000 characters
\* long and a prefix of the raw content, and the title is the first at most
\* 100 characters of it.
RetrievedContentIsCapped ==
    (retrieved.called /\ retrieved.answer.kind = "ok") =>
        LET raw == retrieved.answer.raw_content
            res == retrieved.result.results
        IN  /\ Len(res) = 1
            /\ Len(res[1].content) <= CONTENT_CHARACTER_LIMIT
            /\ IsPrefix(res[1].content, raw)
            /\ Len(raw) <= CONTENT_CHARACTER_LIMIT => res[1].content = raw
            /\ Len(res[1].title) <= TitleLength
            /\ IsPrefix(res[1].title, raw)
            /\ Len(raw) >= TitleLength => Len(res[1].title) = TitleLength

RetrievedContentIsCappedWitness ==
    /\ retrieved.called
    /\ retrieved.answer.kind = "ok"
    /\ Len(retrieved.answer.raw_content) > CONTENT_CHARACTER_LIMIT
    /\ Len(retrieved.result.results[1].content) = CONTENT_CHARACTER_LIMIT

-----------------------------------------------------------------------------
(* The transcript *)

\* C15: the transcript is append-only: on every path of workflow(), each
\* update or completion of the AI state passes a messages list of which
\* the list held just before is a prefix.
TranscriptAppendOnly ==
    [][IsPrefix(aiMessages, aiMessages')]_vars

TranscriptAppendOnlyWitness ==
    /\ pc = "returned"
    /\ aiError
    /\ Len(aiInit) > 1
    /\ Len(aiMessages) > Len(aiInit)

-----------------------------------------------------------------------------
(* Properties of the chat history and of sharing *)

\* the time the i-th chat getChats returned was last saved for that user
SavedAt(i) == chatSaved[lastCall.chats[i].id.of].at[lastCall.userId]

\* C16 as stated: getChats(userId) lists the chats in descending order of
\* their createdAt, after any sequence of saveChat calls.
ChatsByCreatedAt ==
    (lastCall.op = "getChats" /\ lastCall.reached) =>
        \A i, j \in 1..Len(lastCall.chats) :
            i < j => lastCall.chats[i].createdAt.of >=
                        lastCall.chats[j].createdAt.of

\* C16, amended: getChats(userId) lists the chats in descending order of
\* the time each was last saved for userId, chats saved at the same time in
\* descending order of their keys.
ChatsBySaveTime ==
    (lastCall.op = "getChats" /\ lastCall.reached) =>
        \A i, j \in 1..Len(lastCall.chats) :
            i < j =>
               \/ SavedAt(i) > SavedAt(j)
               \/ /\ SavedAt(i) = SavedAt(j)
                  /\ lastCall.chats[i].id.of = "c2"
                  /\ lastCall.chats[j].id.of = "c1"

ChatsBySaveTimeWitness ==
    /\ lastCall.op = "getChats"
    /\ lastCall.reached
    /\ Len(lastCall.chats) = 2
    /\ SavedAt(1) > SavedAt(2)
    /\ lastCall.chats[1].createdAt.of < lastCall.chats[2].createdAt.of

\* C17: clearChats(userId) resolves to an object without an error whenever
\* the user has an indexed chat and the delete pipeline executes; it
\* resolves to an error only when there is nothing to clear or a store
\* operation fails.
ClearReportsSuccess ==
    (lastCall.op = "clearChats" /\ lastCall.reached /\ lastCall.found) =>
        lastCall.error = ""

\* C18: clearChats(userId) empties the history of userId and leaves every
\* chat another user can list, and every other user's index, unchanged;
\* with an empty index it changes nothing in the store.
ClearIsConfined ==
    [][(lastCall'.op = "clearChats" /\ lastCall'.reached) =>
          LET u == lastCall'.userId
          IN  /\ listChats(redisWrapper', userIndex'[u], chatHashes') = <<>>
              /\ \A v \in UserIds \ {u} :
                    /\ userIndex'[v] = userIndex[v]
                    /\ listChats(redisWrapper', userIndex'[v], chatHashes')
                          = listChats(redisWrapper', userIndex[v], chatHashes)
              /\ userIndex[u] = {} =>
                    (chatHashes' = chatHashes /\ userIndex' = userIndex)
      ]_vars

\* the user stored as the owner of chat id, "" when no chat is stored
StoredOwner(id) ==
    IF chatSaved[id].saved THEN chatSaved[id].chat.userId.of ELSE ""

\* C19: shareChat(id, userId) returns null and leaves the store unchanged
\* when the chat does not exist or its stored userId differs from userId;
\* otherwise it sets sharePath to /share/<id> and changes no other field;
\* getSharedChat(id) returns a chat only if the stored chat has a sharePath,
\* so only after a successful shareChat by the owner.
ShareIsOwnerOnly ==
    /\ [](lastCall.op = "getSharedChat" /\ lastCall.found =>
            /\ chatSaved[lastCall.id].shared
            /\ lastCall.chat["sharePath"].of = <<"/share/", lastCall.id>>)
    /\ [][lastCall'.op = "shareChat" =>
            LET id == lastCall'.id
                before == hgetall(redisWrapper', chatHashes[ChatKey(id)])
                after == hgetall(redisWrapper', chatHashes'[ChatKey(id)])
            IN  /\ StoredOwner(id) # lastCall'.userId =>
                      (~lastCall'.found /\ chatHashes' = chatHashes)
                /\ lastCall'.found =>
                      /\ after.found
                      /\ after.chat["sharePath"].of = <<"/share/", id>>
                      /\ \A f \in DOMAIN before.chat :
                            f # "sharePath" => after.chat[f] = before.chat[f]
                      /\ \A k \in ChatKeys \ {ChatKey(id)} :
                            chatHashes'[k] = chatHashes[k]
         ]_vars

ShareIsOwnerOnlyWitness ==
    /\ lastCall.op = "getSharedChat"
    /\ lastCall.found
    /\ redisWrapper = "upstash"
    /\ StoredOwner(lastCall.id) = "u2"

-----------------------------------------------------------------------------
(* Configuration *)

\* C20: in hosted mode without the REST URL or token, every call that
\* obtains the store client throws, no client wrapper is cached, and the
\* chat actions built on it report a failure rather than an ordinary empty
\* or 'not found' result.
MissingCredentialsSurface ==
    storeEnv = "unset" =>
        /\ redisWrapper = "null"
        /\ (lastCall.op \in {"getChats", "clearChats"}
              /\ lastCall.userId # "") =>
              /\ ~lastCall.reached
              /\ lastCall.error # ""

-----------------------------------------------------------------------------
(* Properties of fetchJsonWithRetry *)

RetrySettled == retry.pc \in {"returned", "threw", "undefined"}

\* the part of C21 that holds for every number of attempts asked for
RetryIsBounded ==
    /\ retry.attempts <= retry.retries
    /\ retry.attempts = Len(retry.errors) +
           (IF retry.pc = "returned" THEN 1 ELSE 0)
    /\ \A k \in 1..Len(retry.waits) : retry.waits[k] = BackoffStep * k
    /\ Len(retry.waits) =
           Len(retry.errors) - (IF retry.pc = "threw" THEN 1 ELSE 0)
    /\ retry.pc = "threw" =>
           /\ retry.attempts = retry.retries
           /\ retry.result = retry.errors[Len(retry.errors)]

\* C21: fetchJsonWithRetry(url, retries) makes at most retries attempts,
\* returns the first success, waits 1000*(i+1) ms after the i-th failure,
\* rethrows the last error only when all attempts failed, and always ends
\* with a fetched result or an error.
RetryTerminates ==
    /\ RetryIsBounded
    /\ RetrySettled => retry.pc \in {"returned", "threw"}

-----------------------------------------------------------------------------
(* Properties of the streams of workflow() and of its agents *)

\* the 'answer' messages this request has written to the AI state
AnswersWritten ==
    { i \in (Len(aiInit) + 1)..Len(aiMessages) : aiMessages[i].type = "answer" }

\* C22: every value pushed to the researcher's streamed text is the
\* concatenation of the text deltas received so far, each pushed value is a
\* prefix of the next, and the value given to done() is the text researcher
\* returns and the workflow stores in the 'answer' message.
StreamedTextGrows ==
    /\ \A k \in 1..Len(streamableText.pushed) :
           streamableText.pushed[k] = SubSeq(fullResponse, 1, k)
    /\ \A k \in 1..(Len(streamableText.pushed) - 1) :
           IsPrefix(streamableText.pushed[k], streamableText.pushed[k + 1])
    /\ streamableText.state = "closed" =>
           /\ streamableText.final = answer.text
           /\ \A i \in AnswersWritten :
                  aiMessages[i].text = streamableText.final

StreamedTextGrowsWitness ==
    /\ streamableText.state = "closed"
    /\ Len(streamableText.pushed) = 2
    /\ streamableText.pushed[1] # streamableText.pushed[2]
    /\ AnswersWritten # {}

\* C24: when workflow() has returned, uiStream, isCollapsed and isGenerating
\* are all closed, and workflow() never calls done() on a closed stream
\* (the call throws, and the throw leaves workflow()).
StreamsClosedOnce ==
    /\ pc # "threw"
    /\ pc = "returned" =>
           /\ uiStream = "closed"
           /\ isCollapsed = "closed"
           /\ isGenerating = "closed"

\* C25: an agent that has returned or thrown has closed the streamable
\* value it created: inquire and querySuggestor their objectStream,
\* researcher its streamableText, on the fallback path too.
AgentsCloseStreams ==
    /\ "inquire" \in calls => objectStream = "closed"
    /\ (pc = "suggested" \/ "querySuggestor" \in faults) =>
           objectStream = "closed"
    /\ pc = "researched" => streamableText.state = "closed"

-----------------------------------------------------------------------------
(* Properties of the client's generating flag *)

\* C26: after handleQuerySubmit has set the flag, it is eventually lowered,
\* whether the request ends with an inquiry, a completed answer or a
\* workflow error.
GeneratingComesDown == <>(~appState.isGenerating)

-----------------------------------------------------------------------------
(* Properties of getRedisClientServer and closeRedisConnectionServer *)

FailedClients == {i \in 1..Len(clients) : clients[i].state = "failed"}

\* C27: in local mode, while no connect() has failed and nothing has been
\* closed, at most one client is created however the first calls of
\* getRedisClientServer interleave, and every call that has returned holds a
\* wrapper around that one client, connected.
ClientIsSingleton ==
    (storeEnv = "local" /\ closer.closes = 0 /\ FailedClients = {}) =>
        /\ Len(clients) <= 1
        /\ \A c \in Callers :
               getters[c].pc = "returned" =>
                   /\ getters[c].result.client = 1
                   /\ getters[c].wrapped = "open"

\* C28: no call of getRedisClientServer returns a wrapper around a client
\* whose connect() failed: the call that saw the failure throws, and a later
\* call connects again.
NoWrapperAroundFailedClient ==
    \A c \in Callers :
        getters[c].pc = "returned" => getters[c].wrapped # "failed"

\* C29: closeRedisConnectionServer issues quit at most once on a client,
\* does not throw and leaves localRedisClient and redisWrapper null.
CloseQuitsOnce ==
    /\ \A i \in 1..Len(clients) : clients[i].quits <= 1
    /\ closer.last # "threw"
    /\ closer.last = "returned" =>
           handles = [localRedisClient |-> 0, redisWrapper |-> NoWrapper]

====
